---- MODULE Spec2Model ----
(***************************************************************************)
(* A model of eow_report.py: find_latest_eow_file, clean_spreadsheet,      *)
(* write_formatted_excel and main.  DataFrames are records of a column     *)
(* list, an index (row labels) and a sequence of rows; a row is a function *)
(* from column names to cell values.  Library calls (pandas, glob,         *)
(* xlsxwriter) are modelled by what they do at the call sites.             *)
(***************************************************************************)
EXTENDS Integers, Sequences, FiniteSets

VARIABLES pc, dir, input_file, err, workbook, sorted_df, cleaned_df, sheet

vars == <<pc, dir, input_file, err, workbook, sorted_df, cleaned_df, sheet>>

(***************************************************************************)
(* Bounds of the exploration.                                              *)
(***************************************************************************)
MaxRows == 3
MaxMtime == 2

(***************************************************************************)
(* Cell values.  A text cell is Str(s), s a sequence of numbers (the       *)
(* fields of the text, in the order they are printed); "" is Str(<<>>).    *)
(* A datetime is <<year, month, day, hour, minute, second>>; NaT is the    *)
(* empty tuple.                                                            *)
(***************************************************************************)
NaT == <<>>
NaN == [k |-> "nan", v |-> <<>>]
Str(s) == [k |-> "str", v |-> s]
Blank == Str(<<>>)

Range(s) == {s[i] : i \in 1..Len(s)}

RECURSIVE TupleLess(_, _)
TupleLess(a, b) ==
    IF a = <<>> \/ b = <<>> THEN FALSE
    ELSE IF Head(a) # Head(b) THEN Head(a) < Head(b)
    ELSE TupleLess(Tail(a), Tail(b))

(***************************************************************************)
(* The raw 'Date Time' cells a workbook can hold: a timestamp, an empty    *)
(* cell, or text that is no date.                                          *)
(***************************************************************************)
Timestamps ==
    { <<2024, 12, 31, 8, 30, 15>>,
      <<2024, 12, 31, 8, 30, 5>>,
      <<2025, 1, 2, 9, 0, 0>> }

DateTimeCells ==
    {[k |-> "ts", v |-> t] : t \in Timestamps}
        \cup {[k |-> "null", v |-> <<>>], [k |-> "text", v |-> <<>>]}

Events == {"CPI", "PMI"}
Priors == {"3.1"}
Surveys == {"3.0"}

RawColumns == <<"Date Time", "Event", "Prior", "Survey">>

RawRow(dt, ev, pr, su) ==
    [c \in Range(RawColumns) |->
        CASE c = "Date Time" -> dt
          [] c = "Event" -> ev
          [] c = "Prior" -> pr
          [] c = "Survey" -> su]

RawRows ==
    {RawRow(dt, ev, pr, su) :
        dt \in DateTimeCells, ev \in Events, pr \in Priors, su \in Surveys}

RECURSIVE SeqsUpTo(_, _)
SeqsUpTo(S, n) ==
    IF n = 0 THEN {<<>>}
    ELSE LET shorter == SeqsUpTo(S, n - 1)
         IN  shorter \cup {Append(s, x) : s \in {t \in shorter : Len(t) = n - 1}, x \in S}

Workbooks == SeqsUpTo(RawRows, MaxRows)

(***************************************************************************)
(* pandas helpers used by clean_spreadsheet.                               *)
(***************************************************************************)
\* pd.read_excel: the sheet's rows under a fresh RangeIndex.
read_excel(rows) ==
    [columns |-> RawColumns,
     index |-> [i \in 1..Len(rows) |-> i - 1],
     rows |-> rows]

\* pd.to_datetime(..., errors='coerce') on one raw cell.
to_datetime(cell) == IF cell.k = "ts" THEN cell.v ELSE NaT

\* .dt.strftime("%m/%d/%Y") on one value: month, day, year; NaT gives NaN.
strftime_date(t) == IF t = NaT THEN NaN ELSE Str(<<t[2], t[3], t[1]>>)

\* .dt.strftime("%H:%M") on one value: the seconds are not printed.
strftime_time(t) == IF t = NaT THEN NaN ELSE Str(<<t[4], t[5]>>)

\* pd.to_datetime(text, format="%m/%d/%Y", errors='coerce') on one cell.
to_datetime_format(cell) ==
    IF cell.k = "str" /\ Len(cell.v) = 3
    THEN <<cell.v[3], cell.v[1], cell.v[2], 0, 0, 0>>
    ELSE NaT

\* df[col] = values, one value for each row; a new column is appended to
\* the columns.
AssignColumn(df, col, values) ==
    [df EXCEPT
        !.columns = IF col \in Range(df.columns) THEN @ ELSE Append(@, col),
        !.rows = [i \in 1..Len(df.rows) |->
                    [c \in DOMAIN df.rows[i] \cup {col} |->
                        IF c = col THEN values[i] ELSE df.rows[i][c]]]]

\* df[col]: the cells of one column, row by row.
Column(df, col) == [i \in 1..Len(df.rows) |-> df.rows[i][col]]

\* df[cols].copy()
SelectColumns(df, cols) ==
    [df EXCEPT
        !.columns = cols,
        !.rows = [i \in 1..Len(df.rows) |-> [c \in Range(cols) |-> df.rows[i][c]]]]

\* The drop left out: the frame keeps the column.
KeepColumn(df, col) == df

\* df.drop(columns=col)
DropColumn(df, col) ==
    [df EXCEPT
        !.columns = SelectSeq(@, LAMBDA c : c # col),
        !.rows = [i \in 1..Len(df.rows) |->
                    [c \in DOMAIN df.rows[i] \ {col} |-> df.rows[i][c]]]]

\* The rows of df at the positions pos, in that order, with their labels.
Take(df, pos) ==
    [df EXCEPT
        !.index = [i \in 1..Len(pos) |-> df.index[pos[i]]],
        !.rows = [i \in 1..Len(pos) |-> df.rows[pos[i]]]]

\* Ascending order of one sort key with na_position='last': a missing key
\* is below nothing and every present key is below it.
KeyLess(a, b) ==
    IF a = <<>> THEN FALSE
    ELSE IF b = <<>> THEN TRUE
    ELSE TupleLess(a, b)

\* A sort on the Date text (month, day, year) in place of the parsed date.
DateTextKey(row) == row["Date"].v

\* The keys of by=['DateOrig', 'Time']: the parsed date, then the time text
\* (two-digit fields, so the text order is the order of <<hour, minute>>).
DateOrigKey(row) == row["DateOrig"]
TimeKey(row) == row["Time"].v

\* Whether row a sorts strictly before row b under by=['DateOrig', 'Time'].
RowLess(a, b) ==
    \/ KeyLess(DateOrigKey(a), DateOrigKey(b))
    \/ /\ ~KeyLess(DateOrigKey(b), DateOrigKey(a))
       /\ KeyLess(TimeKey(a), TimeKey(b))

\* A sort that is not stable: a row goes in front of the rows it ties with.
GoesBeforeOrTies(df, p, q) == ~RowLess(df.rows[q], df.rows[p])

\* Whether position p goes in front of position q, already placed: the
\* multi-column sort is stable, so rows with equal keys keep their order.
GoesBefore(df, p, q) == RowLess(df.rows[p], df.rows[q])

RECURSIVE InsertPosition(_, _, _)
InsertPosition(df, placed, p) ==
    IF placed = <<>> THEN <<p>>
    ELSE IF GoesBefore(df, p, Head(placed)) THEN <<p>> \o placed
    ELSE <<Head(placed)>> \o InsertPosition(df, Tail(placed), p)

RECURSIVE SortedPositions(_, _)
SortedPositions(df, n) ==
    IF n = 0 THEN <<>>
    ELSE InsertPosition(df, SortedPositions(df, n - 1), n)

\* df.sort_values(by=['DateOrig', 'Time'])
sort_values(df) == Take(df, SortedPositions(df, Len(df.rows)))

\* g.iloc[0:, Date] = '': the first row of the group is blanked too.
blank_group_all(g) ==
    [g EXCEPT !.rows = [i \in 1..Len(g.rows) |-> [g.rows[i] EXCEPT !["Date"] = Blank]]]

\* The inner function of clean_spreadsheet: g.iloc[1:, Date] = ''.
blank_group(g) ==
    [g EXCEPT
        !.rows = [i \in 1..Len(g.rows) |->
                    IF i >= 2 THEN [g.rows[i] EXCEPT !["Date"] = Blank]
                    ELSE g.rows[i]]]

\* The group keys of groupby('DateOrig'): sort=True, dropna=True, so the
\* distinct non-missing keys in ascending order.
RECURSIVE SortedKeys(_)
SortedKeys(S) ==
    IF S = {} THEN <<>>
    ELSE LET m == CHOOSE x \in S : \A y \in S : ~TupleLess(y, x)
         IN  <<m>> \o SortedKeys(S \ {m})

GroupKeys(df) ==
    SortedKeys({df.rows[i]["DateOrig"] : i \in 1..Len(df.rows)} \ {NaT})

\* The positions from i on where the mask holds, in order.
RECURSIVE PositionsFrom(_, _)
PositionsFrom(mask, i) ==
    IF i > Len(mask) THEN <<>>
    ELSE (IF mask[i] THEN <<i>> ELSE <<>>) \o PositionsFrom(mask, i + 1)

\* The rows of df with the given group key, in the order of df.
Group(df, key) ==
    Take(df, PositionsFrom([i \in 1..Len(df.rows) |-> df.rows[i]["DateOrig"] = key], 1))

\* pd.concat of the frames returned for the groups.
RECURSIVE Concat(_, _)
Concat(df, values) ==
    IF values = <<>> THEN [df EXCEPT !.index = <<>>, !.rows = <<>>]
    ELSE LET rest == Concat(df, Tail(values))
         IN  [Head(values) EXCEPT
                !.index = @ \o rest.index,
                !.rows = @ \o rest.rows]

\* result.reindex(ax): the rows of result in the order of the labels ax.
Reindex(result, ax) ==
    Take(result,
         [i \in 1..Len(ax) |->
            CHOOSE j \in 1..Len(result.index) : result.index[j] = ax[i]])

\* df.groupby('DateOrig', group_keys=False).apply(blank_group).  blank_group
\* returns its group with the same labels, so the results are concatenated
\* and put in the order of the labels of df whose key is not missing.  A row
\* whose DateOrig is NaT is in no group and is not in the result.
GroupByApply(df) ==
    LET keys == GroupKeys(df)
        values == [n \in 1..Len(keys) |-> blank_group(Group(df, keys[n]))]
        kept == PositionsFrom([i \in 1..Len(df.rows) |-> df.rows[i]["DateOrig"] # NaT], 1)
        ax == [i \in 1..Len(kept) |-> df.index[kept[i]]]
    IN  Reindex(Concat(df, values), ax)

final_columns == <<"Date", "Time", "Event", "Prior", "Survey">>

\* clean_spreadsheet up to and including the sort (lines 32-52).
SortedFrame(rows) ==
    LET df == read_excel(rows)
        n == Len(rows)
        raw == Column(df, "Date Time")
        parsed == AssignColumn(df, "Date Time", [i \in 1..n |-> to_datetime(raw[i])])
        stamps == Column(parsed, "Date Time")
        dated == AssignColumn(parsed, "Date", [i \in 1..n |-> strftime_date(stamps[i])])
        timed == AssignColumn(dated, "Time", [i \in 1..n |-> strftime_time(stamps[i])])
        clean == SelectColumns(timed, final_columns)
        dates == Column(clean, "Date")
        orig == AssignColumn(clean, "DateOrig", [i \in 1..n |-> to_datetime_format(dates[i])])
    IN  sort_values(orig)

\* The grouping pass and the drop of the temporary column (lines 54-61).
GroupedFrame(df) == DropColumn(GroupByApply(df), "DateOrig")

clean_spreadsheet(rows) == GroupedFrame(SortedFrame(rows))

(***************************************************************************)
(* find_latest_eow_file.  A file name is the sequence of its parts; the    *)
(* directory maps each name to its modification time, 0 when the file does *)
(* not exist.                                                              *)
(***************************************************************************)
directory == "M:/Trading/8. Miscellaneous/This Week In Markets"

FileNames ==
    { <<"EOW", "_1", ".xlsx">>,
      <<"wk_", "EOW", ".xlsx">>,
      <<"notes", ".xlsx">>,
      <<"EOW", ".xls">>,
      <<".", "EOW", ".xlsx">> }

Directories == [FileNames -> 0..MaxMtime]

\* os.path.join(directory, name)
Join(d, name) == <<d, name>>

pattern == Join(directory, <<"*", "EOW", "*", ".xlsx">>)

\* Whether a file name matches *EOW*.xlsx under glob: EOW somewhere before
\* the final .xlsx, and no leading dot (a leading * matches no hidden file).
Matches(name) ==
    /\ name[Len(name)] = ".xlsx"
    /\ \E i \in 1..(Len(name) - 1) : name[i] = "EOW"
    /\ name[1] # "."

\* The paths glob.glob(pattern) finds in the directory d.
Glob(d) == {Join(directory, n) : n \in {m \in FileNames : d[m] > 0 /\ Matches(m)}}

\* glob returns the paths in the order the file system lists them: any order.
Orders(S) ==
    {f \in [1..Cardinality(S) -> S] : \A i, j \in 1..Cardinality(S) : i # j => f[i] # f[j]}

\* os.path.getmtime(path)
getmtime(d, path) == d[path[2]]

\* files[0]: the first path listed, whatever its modification time.
FirstListed(d, files) == files[1]

\* max(files, key=os.path.getmtime): the first path of the largest key.
MaxByMtime(d, files) ==
    files[CHOOSE i \in 1..Len(files) :
            /\ \A j \in 1..Len(files) : getmtime(d, files[j]) <= getmtime(d, files[i])
            /\ \A j \in 1..(i - 1) : getmtime(d, files[j]) < getmtime(d, files[i])]

NoError == [type |-> "none", message |-> <<>>]

\* FileNotFoundError(f"No files matching {pattern} were found in {directory}")
FileNotFoundError ==
    [type |-> "FileNotFoundError",
     message |-> <<"No files matching ", pattern, " were found in ", directory>>]

NoFile == <<>>
NoFrame == [columns |-> <<>>, index |-> <<>>, rows |-> <<>>]

\* A resolver that falls back to a default path when nothing matches.
find_latest_or_default(d, files) ==
    [raised |-> FALSE,
     error |-> NoError,
     value |-> IF files = <<>> THEN Join(directory, <<"EOW", ".xlsx">>)
               ELSE MaxByMtime(d, files)]

\* The body of find_latest_eow_file once glob has listed files: raise when
\* there is none, else return the newest.
find_latest_eow_file(d, files) ==
    IF files = <<>>
    THEN [raised |-> TRUE, error |-> FileNotFoundError, value |-> NoFile]
    ELSE [raised |-> FALSE, error |-> NoError, value |-> MaxByMtime(d, files)]

(***************************************************************************)
(* write_formatted_excel.  The sheet maps each written cell <<row, col>>   *)
(* (0-based) to what was written last.                                     *)
(***************************************************************************)
StartRow == 2
HeaderRow == 2
TableFirstRow == 1

EmptySheet == [x \in {} |-> [k |-> "blank", v |-> <<>>]]

\* Cell writes: a later write to a cell replaces what it held.
WriteCells(sh, new) ==
    [x \in DOMAIN sh \cup DOMAIN new |-> IF x \in DOMAIN new THEN new[x] ELSE sh[x]]

DataCell(value) == [k |-> "data", v |-> value]
HeaderCell(name) == [k |-> "header", v |-> name]
TitleCell(period) == [k |-> "title", v |-> period]
BlankCell == [k |-> "blank", v |-> <<>>]

\* df.to_excel(writer, index=False, startrow=startrow, header=False)
ToExcel(sh, df, startrow) ==
    WriteCells(sh,
        [x \in (startrow..(startrow + Len(df.rows) - 1)) \X (0..(Len(df.columns) - 1)) |->
            DataCell(df.rows[x[1] - startrow + 1][df.columns[x[2] + 1]])])

\* The report period: the least and greatest of the non-blank Date values.
ReportPeriod(df) ==
    LET date_values ==
            {df.rows[i]["Date"] : i \in {j \in 1..Len(df.rows) : df.rows[j]["Date"] # Blank}}
        dates == {to_datetime_format(c) : c \in date_values} \ {NaT}
    IN  IF date_values = {} \/ dates = {} THEN <<>>
        ELSE <<strftime_date(CHOOSE x \in dates : \A y \in dates : ~TupleLess(y, x)),
               strftime_date(CHOOSE x \in dates : \A y \in dates : ~TupleLess(x, y))>>

\* worksheet.merge_range('A1:E1', title, title_format)
MergeTitle(sh, df) ==
    WriteCells(sh,
        [x \in {0} \X (0..4) |->
            IF x[2] = 0 THEN TitleCell(ReportPeriod(df)) ELSE BlankCell])

\* for col_num, header in enumerate(df.columns.values): worksheet.write(row, ...)
WriteHeaders(sh, df, row) ==
    WriteCells(sh,
        [x \in {row} \X (0..(Len(df.columns) - 1)) |-> HeaderCell(df.columns[x[2] + 1])])

\* worksheet.add_table("A2:<col><total_rows>", header_row=True, columns=...):
\* the table's header names are written on its first row; a range that
\* leaves no data row below the header is refused and nothing is written.
AddTable(sh, df, first_row) ==
    LET total_rows == Len(df.rows) + 2
        last_row == total_rows - 1
    IN  IF last_row - first_row - 1 < 0 THEN sh
        ELSE WriteCells(sh,
                [x \in {first_row} \X (0..(Len(df.columns) - 1)) |->
                    HeaderCell(df.columns[x[2] + 1])])

write_formatted_excel(df) ==
    AddTable(
        WriteHeaders(MergeTitle(ToExcel(EmptySheet, df, StartRow), df), df, HeaderRow),
        df, TableFirstRow)

(***************************************************************************)
(* main: the three calls, one action each.                                 *)
(***************************************************************************)
TypeOK ==
    /\ pc \in {"main", "raised", "found", "cleaned", "written"}
    /\ dir \in Directories
    /\ workbook \in Workbooks

\* The table of the scenario of the specification's section 8.
OneWorkbook ==
    << RawRow([k |-> "ts", v |-> <<2024, 12, 31, 8, 30, 15>>], "CPI", "3.1", "3.0"),
       RawRow([k |-> "ts", v |-> <<2025, 1, 2, 9, 0, 0>>], "PMI", "3.1", "3.0") >>

OneDirectory == [n \in FileNames |-> IF n = <<"EOW", "_1", ".xlsx">> THEN 1 ELSE 0]

InitLocals ==
    /\ pc = "main"
    /\ input_file = NoFile
    /\ err = NoError
    /\ sorted_df = NoFrame
    /\ cleaned_df = NoFrame
    /\ sheet = EmptySheet

\* Any directory, one workbook.
InitResolver ==
    /\ dir \in Directories
    /\ workbook = OneWorkbook
    /\ InitLocals

\* One directory, any workbook.
InitTransform ==
    /\ dir = OneDirectory
    /\ workbook \in Workbooks
    /\ InitLocals

Init == InitResolver \/ InitTransform

\* input_file = find_latest_eow_file(directory); main does not catch the
\* error, so a raise ends the run.
FindLatestEowFile ==
    /\ pc = "main"
    /\ \E files \in Orders(Glob(dir)) :
        LET r == find_latest_eow_file(dir, files)
        IN  /\ pc' = IF r.raised THEN "raised" ELSE "found"
            /\ err' = r.error
            /\ input_file' = r.value
    /\ UNCHANGED <<dir, workbook, sorted_df, cleaned_df, sheet>>

\* cleaned_df = clean_spreadsheet(input_file)
CleanSpreadsheet ==
    /\ pc = "found"
    /\ pc' = "cleaned"
    /\ sorted_df' = SortedFrame(workbook)
    /\ cleaned_df' = GroupedFrame(SortedFrame(workbook))
    /\ UNCHANGED <<dir, input_file, err, workbook, sheet>>

\* write_formatted_excel(cleaned_df, output_file)
WriteFormattedExcel ==
    /\ pc = "cleaned"
    /\ pc' = "written"
    /\ sheet' = write_formatted_excel(cleaned_df)
    /\ UNCHANGED <<dir, input_file, err, workbook, sorted_df, cleaned_df>>

Next == FindLatestEowFile \/ CleanSpreadsheet \/ WriteFormattedExcel

Spec == Init /\ [][Next]_vars
SpecResolver == InitResolver /\ [][Next]_vars
SpecTransform == InitTransform /\ [][Next]_vars

(***************************************************************************)
(* Properties.  The true timestamp of a row is read from the workbook by   *)
(* the row's label, so the properties do not lean on the columns the       *)
(* transform computes.                                                     *)
(***************************************************************************)
Cleaned == pc \in {"cleaned", "written"}

Triple(row) == <<row["Event"], row["Prior"], row["Survey"]>>
Triples == Events \X Priors \X Surveys
CountOf(rows, t) == Cardinality({i \in 1..Len(rows) : Triple(rows[i]) = t})

Stamp(label) == to_datetime(workbook[label + 1]["Date Time"])
TrueDate(t) == IF t = NaT THEN NaT ELSE <<t[1], t[2], t[3]>>
DateAndTime(t) == <<t[1], t[2], t[3], t[4], t[5]>>
Formatted(t) == IF t = NaT THEN NaN ELSE Str(<<t[2], t[3], t[1]>>)
Missing(cell) == cell = NaN \/ cell = Blank

\* C1: the returned table holds the same multiset of (Event, Prior, Survey)
\* triples as the input table, and so the same number of rows.
C1_TriplesPreserved ==
    Cleaned =>
        /\ Len(cleaned_df.rows) = Len(workbook)
        /\ \A t \in Triples : CountOf(cleaned_df.rows, t) = CountOf(workbook, t)

\* C2: clean_spreadsheet does not raise, and every row whose 'Date Time'
\* does not parse is in the returned table with a missing Date, a missing
\* Time and its Event, Prior and Survey intact.
C2_UnparseableRowKept ==
    Cleaned =>
        /\ err = NoError
        /\ \A i \in 1..Len(workbook) :
            Stamp(i - 1) = NaT =>
                \E j \in 1..Len(cleaned_df.rows) :
                    /\ cleaned_df.index[j] = i - 1
                    /\ Missing(cleaned_df.rows[j]["Date"])
                    /\ Missing(cleaned_df.rows[j]["Time"])
                    /\ Triple(cleaned_df.rows[j]) = Triple(workbook[i])

\* Ascending (date, HH:MM) with a missing timestamp below every other.
LeqNullsFirst(a, b) ==
    a = NaT \/ (b # NaT /\ ~TupleLess(DateAndTime(b), DateAndTime(a)))

\* Ascending (date, HH:MM) with a missing timestamp above every other.
LeqNullsLast(a, b) ==
    b = NaT \/ (a # NaT /\ ~TupleLess(DateAndTime(b), DateAndTime(a)))

C4_DisplayGrouping ==
    Cleaned =>
        /\ \A i \in 1..Len(cleaned_df.rows) :
            LET t == Stamp(sorted_df.index[i])
            IN  IF i > 1 /\ TrueDate(t) = TrueDate(Stamp(sorted_df.index[i - 1]))
                THEN cleaned_df.rows[i]["Date"] = Blank
                ELSE cleaned_df.rows[i]["Date"] = Formatted(t)
        /\ \A i \in 1..Len(workbook) :
            Stamp(i - 1) # NaT =>
                Cardinality({j \in 1..Len(cleaned_df.rows) :
                    cleaned_df.rows[j]["Date"] = Formatted(Stamp(i - 1))}) = 1

\* A returned table with a blanked Date and two displayed dates.
C4_Witness ==
    /\ Cleaned
    /\ \E i, j, l \in 1..Len(cleaned_df.rows) :
        /\ cleaned_df.rows[i]["Date"] = Blank
        /\ cleaned_df.rows[j]["Date"] # Blank
        /\ cleaned_df.rows[l]["Date"] # Blank
        /\ cleaned_df.rows[j]["Date"] # cleaned_df.rows[l]["Date"]

\* C5: the path returned is a file of the directory that matches *EOW*.xlsx
\* and none of the matching files is newer.
C5_LatestMatchingFile ==
    pc = "found" =>
        /\ input_file[1] = directory
        /\ input_file[2] \in FileNames
        /\ dir[input_file[2]] > 0
        /\ Matches(input_file[2])
        /\ \A m \in FileNames :
            (dir[m] > 0 /\ Matches(m)) => dir[m] <= dir[input_file[2]]

\* Two matching files of different age, and a newer file that does not match.
C5_Witness ==
    /\ pc = "found"
    /\ \E m \in FileNames :
        dir[m] > 0 /\ Matches(m) /\ dir[m] < dir[input_file[2]]
    /\ \E m \in FileNames : dir[m] > 0 /\ ~Matches(m) /\ dir[m] >= dir[input_file[2]]

\* C6: with no matching file the run ends in a FileNotFoundError whose
\* message names the pattern and the directory; no path is returned and
\* nothing is loaded, transformed or written.
C6_NotFoundAborts ==
    (pc # "main" /\ Glob(dir) = {}) =>
        /\ pc = "raised"
        /\ err.type = "FileNotFoundError"
        /\ err.message[2] = pattern
        /\ err.message[4] = directory
        /\ input_file = NoFile
        /\ sorted_df = NoFrame
        /\ cleaned_df = NoFrame
        /\ sheet = EmptySheet

\* A raise in a directory that holds files, none of them matching.
C6_Witness ==
    /\ pc = "raised"
    /\ \E m \in FileNames : dir[m] > 0

\* The Date shown for row i once blanks are restored: that of the nearest
\* row at or before i whose Date is not blank.
RECURSIVE RestoredDate(_, _)
RestoredDate(rows, i) ==
    IF i = 0 THEN NaN
    ELSE IF rows[i]["Date"] # Blank THEN rows[i]["Date"]
    ELSE RestoredDate(rows, i - 1)

\* Date and Time put back together as a 'Date Time' cell.
Recombined(date, time) ==
    IF date.k = "str" /\ Len(date.v) = 3 /\ time.k = "str" /\ Len(time.v) = 2
    THEN [k |-> "ts", v |-> <<date.v[3], date.v[1], date.v[2], time.v[1], time.v[2], 0>>]
    ELSE [k |-> "null", v |-> <<>>]

Restored(rows) ==
    [i \in 1..Len(rows) |->
        RawRow(Recombined(RestoredDate(rows, i), rows[i]["Time"]),
               rows[i]["Event"], rows[i]["Prior"], rows[i]["Survey"])]

\* C7: the transform run on its own output, blank dates restored and Date
\* and Time recombined, returns the same rows in the same order.
C7_Idempotent ==
    Cleaned => clean_spreadsheet(Restored(cleaned_df.rows)).rows = cleaned_df.rows

\* A returned table with a blanked Date, two dates, and two rows of one
\* date and time that differ in their Event.
C7_Witness ==
    /\ Cleaned
    /\ \E i, j \in 1..Len(cleaned_df.rows) :
        /\ i + 1 < j
        /\ cleaned_df.rows[i + 1]["Date"] = Blank
        /\ cleaned_df.rows[i]["Time"] = cleaned_df.rows[i + 1]["Time"]
        /\ cleaned_df.rows[i]["Event"] # cleaned_df.rows[i + 1]["Event"]
        /\ cleaned_df.rows[j]["Date"] # Blank

\* C8: a table with no data rows gives, without an error, a table with no
\* rows and the columns Date, Time, Event, Prior, Survey.
C8_EmptyInEmptyOut ==
    (Cleaned /\ Len(workbook) = 0) =>
        /\ err = NoError
        /\ Len(cleaned_df.rows) = 0
        /\ cleaned_df.columns = <<"Date", "Time", "Event", "Prior", "Survey">>

\* clean_spreadsheet has returned for a workbook with no data rows.
C8_Witness == pc = "cleaned" /\ Len(workbook) = 0

\* C9: the grouping pass keeps every row of the sorted table in its place
\* with its Time, Event, Prior and Survey, and keeps the Date of the first
\* row of each date group.
C9_GroupingFrame ==
    Cleaned =>
        /\ Len(cleaned_df.rows) = Len(sorted_df.rows)
        /\ \A i \in 1..Len(cleaned_df.rows) :
            /\ cleaned_df.index[i] = sorted_df.index[i]
            /\ cleaned_df.rows[i]["Time"] = sorted_df.rows[i]["Time"]
            /\ Triple(cleaned_df.rows[i]) = Triple(sorted_df.rows[i])
            /\ (i = 1 \/ sorted_df.rows[i]["DateOrig"] # sorted_df.rows[i - 1]["DateOrig"])
                => cleaned_df.rows[i]["Date"] = sorted_df.rows[i]["Date"]

\* Whether sheet row r holds the five header names.
IsHeaderRow(r) ==
    \A c \in 0..4 :
        /\ <<r, c>> \in DOMAIN sheet
        /\ sheet[<<r, c>>].k = "header"
        /\ sheet[<<r, c>>].v = final_columns[c + 1]

\* Whether sheet row r holds the values of row i of the DataFrame.
HoldsDataRow(r, i) ==
    \A c \in 0..4 :
        /\ <<r, c>> \in DOMAIN sheet
        /\ sheet[<<r, c>>].k = "data"
        /\ sheet[<<r, c>>].v = cleaned_df.rows[i][final_columns[c + 1]]

SheetRows == {x[1] : x \in DOMAIN sheet}

\* C10: the written sheet holds the title row, exactly one header row, and
\* below it every row of the DataFrame in order.
C10_SheetHoldsEveryRow ==
    pc = "written" =>
        /\ <<0, 0>> \in DOMAIN sheet
        /\ sheet[<<0, 0>>].k = "title"
        /\ Cardinality({r \in SheetRows : IsHeaderRow(r)}) = 1
        /\ \E h \in SheetRows :
            /\ IsHeaderRow(h)
            /\ \A i \in 1..Len(cleaned_df.rows) : HoldsDataRow(h + i, i)

====
